---------------------------- MODULE Spec2Model ----------------------------
(***************************************************************************)
(* Model of the scheduled jobs of the statichtml repository:               *)
(*   scripts/update_prediction_markets_daily_history.py  (job "history")   *)
(*   scripts/generate_prediction_markets_today.py        (job "today")     *)
(*   scripts/update_crypto_data.py                       (job "crypto")    *)
(*   scripts/update_tesla_timeline_with_comments.py      (rank_comments)   *)
(*                                                                         *)
(* Conventions.  Python's None is the empty sequence None == <<>>, and a   *)
(* present value v is Some(v) == <<v>>.  Calendar dates are day numbers    *)
(* (ISO yyyy-mm-dd strings of equal width compare like the days they       *)
(* name).  Amounts are integers in hundredths, so round(x, 2) keeps them.  *)
(***************************************************************************)
EXTENDS Integers, Sequences, FiniteSets, TLC

VARIABLES
    http,       \* the activation of http_get_json, or the idle record
    fin,        \* input of a pure function under test
    fout,       \* its output
    job,        \* the script the scheduler runs: "history", "today", "crypto"
    pc,         \* where main() is: "idle", a platform's name, "done", "crashed"
    today,      \* the local calendar day main() read from the clock
    runs,       \* runs started so far
    disk,       \* the persisted files, by name
    loaded,     \* what this run loaded from its store file
    records,    \* the history script's in-memory record list
    est,        \* the locals of the estimator that is running
    platforms,  \* each platform's estimate in this run, None until made
    failed,     \* the platforms whose estimator raised in this run
    store       \* the crypto script's in-memory store

pureVars == <<fin, fout>>
jobVars == <<job, pc, today, runs, disk, loaded, records, est, platforms,
             failed, store>>
vars == <<http, fin, fout, job, pc, today, runs, disk, loaded, records, est,
          platforms, failed, store>>

None == <<>>
Some(v) == <<v>>
IsNone(x) == x = <<>>
Val(x) == x[1]

Range(s) == {s[k] : k \in 1..Len(s)}

RECURSIVE Pow(_, _)
Pow(b, e) == IF e = 0 THEN 1 ELSE b * Pow(b, e - 1)

(***************************************************************************)
(* Bounds of the model.                                                    *)
(***************************************************************************)
MaxRetries == 5

(***************************************************************************)
(* http_get_json: the fixed-count retry loop of both prediction-markets    *)
(* scripts.  backoff is the rational bnum/BackoffDen (1.3 in the today     *)
(* script, 1.2 in the history script).                                     *)
(***************************************************************************)
BackoffDen == 10
BackoffToday == 13
BackoffHistory == 12

ErrKinds == {"transport", "json"}

HttpIdle == [state |-> "idle"]

\* Entry of http_get_json: last_err = None, the loop index at 0.
HttpCall(ctx, retries, bnum) ==
    [state |-> "running", ctx |-> ctx, retries |-> retries, bnum |-> bnum,
     i |-> 0, attempts |-> 0, sleeps |-> <<>>, err |-> None, out |-> None]

\* time.sleep(backoff ** i), as the fraction <<numerator, denominator>>.
SleepTime(bnum, i) == <<Pow(bnum, i), Pow(BackoffDen, i)>>

\* The error raised once the loop is exhausted: raise last_err.
RaisedFirstErr(h, e) == IF IsNone(h.err) THEN Some(e) ELSE h.err
RaisedErr(h, e) == Some(e)

\* The sleep after a failed attempt: if i < retries - 1.
SleepsAlways(h) == Append(h.sleeps, SleepTime(h.bnum, h.i))
SleepsAfterFail(h) ==
    IF h.i < h.retries - 1 THEN Append(h.sleeps, SleepTime(h.bnum, h.i))
    ELSE h.sleeps

\* One iteration of the loop whose curl call or json.loads succeeded.
HttpOkStep(h, resp) ==
    [h EXCEPT !.state = "returned", !.attempts = h.attempts + 1,
              !.out = Some(resp)]

\* One iteration whose curl call or json.loads raised an error of kind k;
\* the last iteration falls out of the loop into raise.
HttpFailStep(h, k) ==
    LET e == [kind |-> k, at |-> h.i] IN
    [h EXCEPT !.attempts = h.attempts + 1,
              !.err = RaisedErr(h, e),
              !.sleeps = SleepsAfterFail(h),
              !.i = h.i + 1,
              !.state = IF h.i + 1 < h.retries THEN "running" ELSE "raised"]

HttpResponses == {"json-a", "json-b"}

(***************************************************************************)
(* A whole call of http_get_json against an upstream that fails the first  *)
(* o.fails attempts with an error of kind o.kind and then answers o.resp.  *)
(***************************************************************************)
RECURSIVE HttpFails(_, _, _)
HttpFails(h, n, k) ==
    IF n = 0 \/ h.state # "running" THEN h
    ELSE \* the call after one more failed attempt, bound as a value
         CHOOSE r \in {HttpFails(h1, n - 1, k) : h1 \in {HttpFailStep(h, k)}} : TRUE

HttpRun(h, o) ==
    LET h1 == HttpFails(h, o.fails, o.kind)
    IN  IF h1.state = "running" THEN HttpOkStep(h1, o.resp) ELSE h1

(***************************************************************************)
(* The persisted files.  A file is absent, holds text json.loads rejects,  *)
(* or holds a JSON document.                                               *)
(***************************************************************************)
Absent == [kind |-> "absent"]
Unparseable == [kind |-> "unparseable"]
Json(doc) == [kind |-> "json", doc |-> doc]

Day0 == 100

(***************************************************************************)
(* What the upstream APIs may answer.  A Polymarket page is summarised by  *)
(* what the estimators take from it: n = len(arr) and vol = the sum of     *)
(* float(m.get("volume24hr") or 0) over it; NotList is a JSON value that   *)
(* is no list (an error object).  A Manifold bet is [createdTime, shares], *)
(* a field None when absent or null; DayStart is start_utc in the unit of  *)
(* createdTime.                                                            *)
(***************************************************************************)
PolyLimit == 200
MaxPages == 4
EstRetries == 4
DayStart == 10

NotList == [list |-> FALSE]
PolyPage(n, vol) == [list |-> TRUE, n |-> n, vol |-> vol]
BetsPage(bets) == [list |-> TRUE, bets |-> bets]
Bet(ts, shares) == [createdTime |-> ts, shares |-> shares]
NotDict == [dict |-> FALSE]
Snapshots(l) == [dict |-> TRUE, snapshots |-> l]
Snapshot(d, tvc, tv) == [date |-> Some(d), tvc |-> tvc, tv |-> tv, tct |-> None]

HistoryResponses(ctx) ==
    CASE ctx = "polymarket" ->
            {NotList, PolyPage(0, 0), PolyPage(1, 5), PolyPage(PolyLimit, 0)}
      [] ctx = "manifold-bets" ->
            {NotList, BetsPage(<<>>),
             BetsPage(<<Bet(Some(DayStart + 1), Some(-3)), Bet(Some(DayStart - 1), Some(4))>>),
             BetsPage(<<Bet(Some(DayStart), None)>>)}
      [] ctx = "kalshi-snapshots" ->
            {NotDict, Snapshots(<<>>),
             Snapshots(<<Snapshot(today, Some(9), None), Snapshot(today - 1, Some(7), None)>>),
             Snapshots(<<Snapshot(today - 1, None, Some(8))>>),
             Snapshots(<<Snapshot(today - 1, None, Some(10)), Snapshot(today - 2, None, Some(3))>>),
             Snapshots(<<Snapshot(today - 90, Some(7), None)>>)}

\* A page of Kalshi trades is summarised by n = len(arr), cnt = the sum of
\* the trades' counts, first and last = created_time of arr[0] and arr[-1]
\* in seconds, and the cursor; a markets listing by its number of markets
\* created today.
TradesPage(n, cnt, first, last, cursor) ==
    [dict |-> TRUE, n |-> n, cnt |-> cnt, first |-> first, last |-> last,
     cursor |-> cursor]
Markets(new) == [list |-> TRUE, dict |-> TRUE, new |-> new]
NoMarkets == [list |-> FALSE, dict |-> FALSE]

TodayResponses(ctx) ==
    CASE ctx = "polymarket" ->
            {NotList, PolyPage(0, 0), PolyPage(PolyLimit - 1, 3),
             PolyPage(PolyLimit, 2)}
      [] ctx = "manifold-bets" -> HistoryResponses(ctx)
      [] ctx = "manifold-markets" -> {NoMarkets, Markets(2)}
      [] ctx = "kalshi-trades" ->
            {NotDict, TradesPage(0, 0, 0, 0, None),
             TradesPage(2, 3, 50, 40, Some("next")),
             TradesPage(2, 3, 50, 40, None)}
      [] ctx = "kalshi-markets" -> {NoMarkets, Markets(1)}

Responses(j, ctx) ==
    CASE j = "history" -> HistoryResponses(ctx)
      [] j = "today" -> TodayResponses(ctx)
      [] OTHER -> HttpResponses

\* The upstream's behaviours over one call of http_get_json with the given
\* retries: an answer on the last attempt, or no answer at all.
Outcomes(j, ctx, retries) ==
    {[fails |-> retries - 1, kind |-> "transport", resp |-> r] :
        r \in Responses(j, ctx)}
    \cup {[fails |-> retries, kind |-> k, resp |-> None] : k \in ErrKinds}

(***************************************************************************)
(* SpecHttp: http_get_json alone, for every retries in 1..MaxRetries and   *)
(* both backoff factors, against an upstream that may fail or answer on    *)
(* every attempt.                                                          *)
(***************************************************************************)
\* No script is running: the state of the job variables in the
\* specifications of single functions.
NoJob ==
    /\ job = "none" /\ pc = "idle" /\ today = 0 /\ runs = 0
    /\ disk = <<>> /\ loaded = None /\ records = <<>> /\ est = None
    /\ platforms = <<>> /\ failed = {} /\ store = None

InitHttp ==
    /\ \E n \in 1..MaxRetries, b \in {BackoffToday, BackoffHistory} :
          http = HttpCall("any", n, b)
    /\ fin = None
    /\ fout = None
    /\ NoJob

HttpAttemptOk ==
    /\ http.state = "running"
    /\ \E r \in HttpResponses : http' = HttpOkStep(http, r)
    /\ UNCHANGED <<pureVars, jobVars>>

HttpAttemptFail ==
    /\ http.state = "running"
    /\ \E k \in ErrKinds : http' = HttpFailStep(http, k)
    /\ UNCHANGED <<pureVars, jobVars>>

NextHttp == HttpAttemptOk \/ HttpAttemptFail

SpecHttp == InitHttp /\ [][NextHttp]_vars


\* C6: http_get_json with retries = N >= 1 makes at most N attempts, returns
\* the response of the first successful attempt and stops there, sleeps
\* backoff^i only after a failed attempt that is not the last (so the sleeps
\* grow strictly), and raises the last attempt's error when all N fail.
SleepLess(a, b) == a[1] * b[2] < b[1] * a[2]
HttpRetryContract ==
    http.state # "idle" =>
        /\ http.attempts <= http.retries
        /\ http.state = "running" =>
              /\ http.attempts = http.i
              /\ http.i < http.retries
              /\ IsNone(http.out)
        /\ http.state = "returned" =>
              /\ http.attempts = http.i + 1
              /\ http.out # None /\ Val(http.out) \in HttpResponses
        /\ http.state = "raised" =>
              /\ http.attempts = http.retries
              /\ IsNone(http.out)
              /\ http.err # None /\ Val(http.err).at = http.retries - 1
        /\ Len(http.sleeps) =
              (IF http.state = "raised" THEN http.retries - 1 ELSE http.i)
        /\ \A k \in 1..Len(http.sleeps) :
              http.sleeps[k] = SleepTime(http.bnum, k - 1)
        /\ \A k, l \in 1..Len(http.sleeps) :
              k < l => SleepLess(http.sleeps[k], http.sleeps[l])

HttpExhaustedWitness ==
    /\ http.state = "raised"
    /\ http.retries = 3
    /\ Len(http.sleeps) = 2
    /\ Val(http.err).kind = "json"

(***************************************************************************)
(* Stable sorting, as list.sort does it: key[k] is the sort key of s[k],   *)
(* and an element goes behind every element whose key is smaller, or equal *)
(* and earlier in s.                                                       *)
(***************************************************************************)
StableSort(s, key) ==
    LET pos(k) == 1 + Cardinality({j \in 1..Len(s) :
                          key[j] < key[k] \/ (key[j] = key[k] /\ j < k)})
    IN  [p \in 1..Len(s) |-> s[CHOOSE k \in 1..Len(s) : pos(k) = p]]

Reverse(s) == [k \in 1..Len(s) |-> s[Len(s) + 1 - k]]

\* The index of the first TRUE of the sequence hits, or 0: the loops that
\* stop at the first record of a key.
FirstIndex(hits) ==
    IF \E k \in 1..Len(hits) : hits[k]
    THEN CHOOSE k \in 1..Len(hits) : hits[k] /\ \A j \in 1..(k - 1) : ~hits[j]
    ELSE 0

(***************************************************************************)
(* The store merges.  A history record is [date, platform,                 *)
(* daily_total_value, status] (unit, source and method are carried with    *)
(* the value); a crypto record is [date, price] (the other market fields   *)
(* are carried with price).                                                *)
(***************************************************************************)
PLATFORMS == <<"Polymarket", "Manifold", "Kalshi">>

SameKey(r, rec) == r.date = rec.date /\ r.platform = rec.platform

\* upsert of the history script: replace the first record of the key, or append.
upsertAppendAlways(rs, rec) == Append(rs, rec)
upsert(rs, rec) ==
    LET idx == FirstIndex([k \in 1..Len(rs) |-> SameKey(rs[k], rec)])
    IN  IF idx = 0 THEN Append(rs, rec)
        ELSE [rs EXCEPT ![idx] = rec]

\* key=lambda x: x.get('date', '')
DateKeys(asset_records) == [k \in 1..Len(asset_records) |-> asset_records[k].date]

\* upsert_record of the crypto script: replace in place and return, or
\* append and sort by date.
upsert_recordAppendAlways(asset_records, new_record) ==
    LET appended == Append(asset_records, new_record)
    IN  StableSort(appended, DateKeys(appended))
upsert_record(asset_records, new_record) ==
    LET idx == FirstIndex([k \in 1..Len(asset_records) |->
                              asset_records[k].date = new_record.date])
        appended == Append(asset_records, new_record)
    IN  IF idx = 0
        THEN StableSort(appended, DateKeys(appended))
        ELSE [asset_records EXCEPT ![idx] = new_record]

(***************************************************************************)
(* SpecMerge: both merges on every record list of at most MaxLen records   *)
(* and every new record, applied twice.                                    *)
(***************************************************************************)
MaxLen == 3

SeqsUpTo(S, n) == UNION {[1..k -> S] : k \in 0..n}

MergeHistoryRecs ==
    [date : {1, 2}, platform : {"Polymarket", "Kalshi"},
     daily_total_value : {None, Some(7)}, status : {"partial"}]
MergeCryptoRecs == [date : {1, 2, 3}, price : {Some(1), Some(2)}]

InitMerge ==
    /\ http = HttpIdle
    /\ NoJob
    /\ \/ \E l \in SeqsUpTo(MergeHistoryRecs, MaxLen), r \in MergeHistoryRecs :
             fin = [fn |-> "upsert", list |-> l, rec |-> r]
       \/ \E l \in SeqsUpTo(MergeCryptoRecs, MaxLen), r \in MergeCryptoRecs :
             fin = [fn |-> "upsert_record", list |-> l, rec |-> r]
    /\ fout = <<>>

MergeCurrent == IF fout = <<>> THEN fin.list ELSE fout[Len(fout)]

ApplyUpsert ==
    /\ fin.fn = "upsert"
    /\ Len(fout) < 2
    /\ fout' = Append(fout, upsert(MergeCurrent, fin.rec))
    /\ UNCHANGED <<http, fin, jobVars>>

ApplyUpsertRecord ==
    /\ fin.fn = "upsert_record"
    /\ Len(fout) < 2
    /\ fout' = Append(fout, upsert_record(MergeCurrent, fin.rec))
    /\ UNCHANGED <<http, fin, jobVars>>

NextMerge == ApplyUpsert \/ ApplyUpsertRecord

SpecMerge == InitMerge /\ [][NextMerge]_vars

MergeKeyOf(r) == IF fin.fn = "upsert" THEN <<r.date, r.platform>> ELSE <<r.date>>
KeyCount(l, rec) ==
    Cardinality({k \in 1..Len(l) : MergeKeyOf(l[k]) = MergeKeyOf(rec)})

\* C1: applying upsert, or upsert_record, a second time with the same record
\* leaves the list as the first application made it, and that list holds
\* exactly one record of the new record's key when the input held at most one.
MergeIdempotent ==
    /\ Len(fout) >= 1 =>
          (KeyCount(fin.list, fin.rec) <= 1 =>
              /\ KeyCount(fout[1], fin.rec) = 1
              /\ \E k \in 1..Len(fout[1]) : fout[1][k] = fin.rec)
    /\ Len(fout) = 2 => fout[2] = fout[1]

MergeTwiceWitness ==
    /\ Len(fout) = 2
    /\ fin.fn = "upsert_record"
    /\ KeyCount(fin.list, fin.rec) = 0
    /\ Len(fin.list) = 2
    /\ fout[2] # Append(fin.list, fin.rec)

(***************************************************************************)
(* Comment ranking of the Tesla timeline script.  A comment is             *)
(* [author, likes, text]; likes is None for a missing or null field; a     *)
(* text is the triple of counts info_density_score takes from it:          *)
(* [uniq: distinct tokens, length: characters, digits: digit characters].  *)
(* Scores are kept exact as integers: D1200 is 1200 * info_density_score   *)
(* and Score40 is 40 * (likes * 0.75 + density * 30).                      *)
(***************************************************************************)
MAX_COMMENTS == 20

Min(a, b) == IF a <= b THEN a ELSE b

\* min(10.0, uniq / 12.0 + min(4.0, length / 80.0) + numbers * 0.08), or 0.0
\* for an empty text.
info_density_score(text) ==
    IF text.length = 0 THEN 0
    ELSE Min(12000, text.uniq * 100 + Min(4800, text.length * 15)
                    + text.digits * 96)

\* likes = int(c.get("likes", 0) or 0)
LikesOf(c) == IF IsNone(c.likes) THEN 0 ELSE Val(c.likes)

Score40(c) == LikesOf(c) * 30 + info_density_score(c.text)

\* The dict rank_comments keeps of a comment.
CommentCopy(c) == [author |-> c.author, text |-> c.text, likes |-> LikesOf(c)]

\* key=lambda x: x[0]
ScoreKeys(scored) == [k \in 1..Len(scored) |-> scored[k][1]]

\* scored.sort(key=lambda x: x[0], reverse=True): list.sort reverses the
\* list, sorts it ascending and stable, and reverses the result.
SortReverseUnstable(scored) == Reverse(StableSort(scored, ScoreKeys(scored)))
SortReverse(scored) ==
    Reverse(StableSort(Reverse(scored), ScoreKeys(Reverse(scored))))

rank_comments(comments) ==
    LET scored == [k \in 1..Len(comments) |->
                      <<Score40(comments[k]), CommentCopy(comments[k])>>]
        sorted == SortReverse(scored)
    IN  [k \in 1..Min(MAX_COMMENTS, Len(sorted)) |-> sorted[k][2]]

(***************************************************************************)
(* SpecRank: rank_comments on comment lists of up to MaxComments comments. *)
(* A list repeats a seed of at most MaxSeed comment kinds; the k-th        *)
(* comment carries author k, so that equal comments stay distinguishable.  *)
(***************************************************************************)
MaxComments == 22
MaxSeed == 3

CommentKinds ==
    { [likes |-> Some(40), text |-> [uniq |-> 0, length |-> 0, digits |-> 0]],
      [likes |-> None, text |-> [uniq |-> 6, length |-> 40, digits |-> 0]],
      [likes |-> Some(2), text |-> [uniq |-> 12, length |-> 400, digits |-> 3]],
      [likes |-> Some(0), text |-> [uniq |-> 100, length |-> 1000, digits |-> 50]] }

Cyclic(seed, n) ==
    [k \in 1..n |->
        LET kind == seed[((k - 1) % Len(seed)) + 1]
        IN  [author |-> k, likes |-> kind.likes, text |-> kind.text]]

InitRank ==
    /\ http = HttpIdle
    /\ NoJob
    /\ \E m \in 1..MaxSeed : \E seed \in [1..m -> CommentKinds] :
          \E n \in 0..MaxComments : fin = Cyclic(seed, n)
    /\ fout = None

ApplyRank ==
    /\ IsNone(fout)
    /\ fout' = Some(rank_comments(fin))
    /\ UNCHANGED <<http, fin, jobVars>>

NextRank == ApplyRank

SpecRank == InitRank /\ [][NextRank]_vars

\* C7: rank_comments returns the first 20 comments of the stable descending
\* sort by score: min(20, n) entries, each the copy of an input comment,
\* scores never increasing, no omitted comment scoring higher than a
\* returned one, and equal scores in their input order.
RankIsStableTop20 ==
    fout # None =>
        LET res == Val(fout)
            n == Len(fin)
            \* author k is the k-th input comment
            at(k) == res[k].author
            kept == {res[k].author : k \in 1..Len(res)}
        IN  /\ Len(res) = Min(20, n)
            /\ \A k \in 1..Len(res) :
                  at(k) \in 1..n /\ res[k] = CommentCopy(fin[at(k)])
            /\ \A k, l \in 1..Len(res) : k < l =>
                  /\ at(k) # at(l)
                  /\ Score40(fin[at(k)]) >= Score40(fin[at(l)])
                  /\ Score40(fin[at(k)]) = Score40(fin[at(l)]) => at(k) < at(l)
            /\ \A j \in (1..n) \ kept : \A k \in 1..Len(res) :
                  /\ Score40(fin[j]) <= Score40(fin[at(k)])
                  /\ Score40(fin[j]) = Score40(fin[at(k)]) => at(k) < j

RankTieCutWitness ==
    /\ fout # None
    /\ Len(fin) = 22
    /\ Len(Val(fout)) = 20
    /\ \E k \in 1..19 :
          /\ Val(fout)[k].likes # Val(fout)[k + 1].likes
          /\ Score40(fin[Val(fout)[k].author]) = Score40(fin[Val(fout)[k + 1].author])
    /\ \E j \in 1..22 :
          /\ \A k \in 1..20 : Val(fout)[k].author # j
          /\ Score40(fin[j]) = Score40(fin[Val(fout)[20].author])

(***************************************************************************)
(* get_kalshi_published of the history script.  A snapshot is              *)
(* [date, tvc: trading_volume_change, tv: trading_volume,                  *)
(*  tct: total_contracts_traded], each None when the field is absent or    *)
(* null; the function reads date, tvc and tv only.                         *)
(***************************************************************************)
NumOr0(x) == IF IsNone(x) THEN 0 ELSE Val(x)

KalshiPublished(arr, today_local) ==
    LET published == SelectSeq(arr, LAMBDA x : x.date # None /\ Val(x.date) < today_local)
    IN  StableSort(published, [k \in 1..Len(published) |-> Val(published[k].date)])

get_kalshi_publishedOldest(snapshots, today_local) ==
    LET published == KalshiPublished(snapshots, today_local) IN
    IF published = <<>> THEN [date |-> None, value |-> None, status |-> "missing"]
    ELSE [date |-> published[1].date, value |-> published[1].tvc,
          status |-> IF IsNone(published[1].tvc) THEN "missing" ELSE "ok"]
get_kalshi_published(snapshots, today_local) ==
    LET published == KalshiPublished(snapshots, today_local)
        n == Len(published)
        latest == published[n]
        daily == IF IsNone(latest.tvc) /\ n >= 2
                 THEN Some(NumOr0(latest.tv) - NumOr0(published[n - 1].tv))
                 ELSE latest.tvc
    IN  IF n = 0 THEN [date |-> None, value |-> None, status |-> "missing"]
        ELSE IF IsNone(daily)
        THEN [date |-> latest.date, value |-> None, status |-> "missing"]
        ELSE [date |-> latest.date, value |-> daily, status |-> "ok"]

(***************************************************************************)
(* SpecKalshi: get_kalshi_published on every snapshot list of at most      *)
(* MaxSnapshots snapshots, today being day KalshiToday.                    *)
(***************************************************************************)
MaxSnapshots == 2
KalshiToday == 3

KalshiVolumes ==
    { [tv |-> None, tct |-> None],
      [tv |-> Some(100), tct |-> None], [tv |-> Some(150), tct |-> None],
      [tv |-> None, tct |-> Some(100)], [tv |-> None, tct |-> Some(150)] }

KalshiSnapshots ==
    { [date |-> d, tvc |-> c, tv |-> v.tv, tct |-> v.tct] :
        d \in {None, Some(1), Some(2), Some(3)}, c \in {None, Some(7)},
        v \in KalshiVolumes }

InitKalshi ==
    /\ http = HttpIdle
    /\ NoJob
    /\ \E l \in SeqsUpTo(KalshiSnapshots, MaxSnapshots) : fin = l
    /\ fout = None

ApplyKalshi ==
    /\ IsNone(fout)
    /\ fout' = Some(get_kalshi_published(fin, KalshiToday))
    /\ UNCHANGED <<http, fin, jobVars>>

NextKalshi == ApplyKalshi

SpecKalshi == InitKalshi /\ [][NextKalshi]_vars

\* The scenario's list: two published dates before today, in either order,
\* the later one with no trading_volume_change.
KalshiTwoDates(field) ==
    /\ Len(fin) = 2
    /\ \E k, l \in 1..2 :
          /\ k # l
          /\ fin[k].date = Some(1) /\ fin[k][field] = Some(100)
          /\ fin[l].date = Some(2) /\ fin[l][field] = Some(150)
          /\ IsNone(fin[l].tvc)

\* C8 as stated: with total_contracts_traded 100 on D1 and 150 on D2 the
\* lookup returns D2 with a daily change of 50.
KalshiContractsScenario ==
    (fout # None /\ KalshiTwoDates("tct"))
        => (Val(fout).date = Some(2) /\ Val(fout).value = Some(50))

\* C8 as amended: with trading_volume 100 on D1 and 150 on D2, and no
\* trading_volume_change on D2, the lookup returns D2 with a daily change of
\* 50 and status ok.
KalshiVolumeScenario ==
    (fout # None /\ KalshiTwoDates("tv"))
        => Val(fout) = [date |-> Some(2), value |-> Some(50), status |-> "ok"]

KalshiVolumeWitness ==
    /\ fout # None
    /\ KalshiTwoDates("tv")
    /\ fin[1].date = Some(2)
    /\ Val(fout).value = Some(50)

(***************************************************************************)
(* The Polymarket estimators: get_polymarket_value (history) and           *)
(* polymarket (today) run the same page loop.  est holds the loop's        *)
(* locals; done says the loop has ended.                                   *)
(***************************************************************************)
PolyInit == [page |-> 0, count |-> 0, total |-> 0, done |-> FALSE]

\* if len(arr) < limit: break
PolyShortPageContinues(r) == FALSE
PolyShortPageBreaks(r) == r.n < PolyLimit

\* The body of the page loop for the response r of page e.page.
PolyStep(e, r) ==
    IF ~r.list \/ r.n = 0 THEN [e EXCEPT !.done = TRUE]
    ELSE LET e1 == [e EXCEPT !.count = @ + r.n, !.total = @ + r.vol] IN
         IF PolyShortPageBreaks(r) THEN [e1 EXCEPT !.done = TRUE]
         ELSE [e1 EXCEPT !.page = @ + 1, !.done = (e.page + 1 >= MaxPages)]

\* What both estimators return for the locals e: the value and the status.
PolyResult(e) ==
    IF e.count = 0 THEN [value |-> None, status |-> "missing"]
    ELSE [value |-> Some(e.total), status |-> "partial"]

(***************************************************************************)
(* The Manifold estimator of the history script.                           *)
(***************************************************************************)
ManifoldInit == [iter |-> 0, before |-> None, vol |-> 0, scanned |-> 0,
                 done |-> FALSE]

Abs(x) == IF x < 0 THEN -x ELSE x

\* ts = int(b.get("createdTime") or 0)
BetTs(b) == NumOr0(b.createdTime)

SumSeq(s) ==
    LET F[k \in 0..Len(s)] == IF k = 0 THEN 0 ELSE F[k - 1] + s[k]
    IN  F[Len(s)]

MinOf(S) == CHOOSE x \in S : \A y \in S : x <= y

\* The bets loop with before = min_ts.
ManifoldStepInclusive(e, r) ==
    IF ~r.list \/ r.bets = <<>> THEN [e EXCEPT !.done = TRUE]
    ELSE LET bets == r.bets
             min_ts == MinOf({BetTs(bets[k]) : k \in 1..Len(bets)})
             should_stop == \E k \in 1..Len(bets) : BetTs(bets[k]) < DayStart
             added == SumSeq([k \in 1..Len(bets) |->
                         IF BetTs(bets[k]) < DayStart THEN 0
                         ELSE Abs(NumOr0(bets[k].shares))])
         IN  [e EXCEPT !.scanned = @ + Len(bets),
                       !.vol = @ + added,
                       !.before = Some(min_ts),
                       !.iter = @ + 1,
                       !.done = should_stop \/ e.iter + 1 >= MaxPages]

\* The body of the bets loop for the response r.
ManifoldStep(e, r) ==
    IF ~r.list \/ r.bets = <<>> THEN [e EXCEPT !.done = TRUE]
    ELSE LET bets == r.bets
             min_ts == MinOf({BetTs(bets[k]) : k \in 1..Len(bets)})
             should_stop == \E k \in 1..Len(bets) : BetTs(bets[k]) < DayStart
             added == SumSeq([k \in 1..Len(bets) |->
                         IF BetTs(bets[k]) < DayStart THEN 0
                         ELSE Abs(NumOr0(bets[k].shares))])
         IN  [e EXCEPT !.scanned = @ + Len(bets),
                       !.vol = @ + added,
                       !.before = Some(min_ts - 1),
                       !.iter = @ + 1,
                       !.done = should_stop \/ e.iter + 1 >= MaxPages]

get_manifold_value(e) ==
    IF e.scanned = 0 THEN [value |-> None, status |-> "missing"]
    ELSE [value |-> Some(e.vol), status |-> "partial"]

\* arr = snapshots.get("snapshots", []) if isinstance(snapshots, dict) else []
KalshiArr(r) == IF r.dict THEN r.snapshots ELSE <<>>

(***************************************************************************)
(* The history script's store: load, sort, trim, write.                    *)
(***************************************************************************)
RETENTION == 89

MigratedRow(r) ==
    IF IsNone(r.date) THEN <<>>
    ELSE << [date |-> Val(r.date), platform |-> "Polymarket",
             daily_total_value |-> r.polymarket_daily,
             status |-> IF IsNone(r.polymarket_daily) THEN "missing" ELSE "partial"],
            [date |-> Val(r.date), platform |-> "Manifold",
             daily_total_value |-> r.manifold_daily,
             status |-> IF IsNone(r.manifold_daily) THEN "missing" ELSE "partial"],
            [date |-> Val(r.date), platform |-> "Kalshi",
             daily_total_value |-> r.kalshi_daily_published,
             status |-> IF IsNone(r.kalshi_daily_published) THEN "missing" ELSE "ok"] >>

\* migrate old wide format
Migrate(rows) ==
    LET F[k \in 0..Len(rows)] ==
            IF k = 0 THEN <<>> ELSE F[k - 1] \o MigratedRow(rows[k])
    IN  F[Len(rows)]

load_existing_records(f) ==
    IF f.kind = "absent" THEN <<>>
    ELSE IF f.kind = "unparseable" THEN <<>>
    ELSE IF "records" \notin DOMAIN f.doc THEN <<>>
    ELSE IF f.doc.records # <<>> /\ "platform" \in DOMAIN f.doc.records[1]
         THEN f.doc.records
         ELSE Migrate(f.doc.records)

PlatformRank(name) ==
    CASE name = "Kalshi" -> 1 [] name = "Manifold" -> 2 [] name = "Polymarket" -> 3

\* records.sort(key=lambda r: (r.get("date", ""), r.get("platform", "")))
SortRecords(rs) ==
    StableSort(rs, [k \in 1..Len(rs) |-> rs[k].date * 4 + PlatformRank(rs[k].platform)])

\* cutoff = today - timedelta(days=89)
Cutoff(day) == day - RETENTION

TrimKeepsNulls(rs, cutoff) == SelectSeq(rs, LAMBDA r : r.date >= cutoff)
Trim(rs, cutoff) ==
    SelectSeq(rs, LAMBDA r : r.date >= cutoff /\ r.daily_total_value # None)

HistRec(date, name, res) ==
    [date |-> date, platform |-> name, daily_total_value |-> res.value,
     status |-> res.status]

\* The payload main() writes to DATA_PATH.
HistoryPayload(rs, day) ==
    [coverage |-> [start_date |-> Cutoff(day), end_date |-> day],
     records |-> Trim(SortRecords(rs), Cutoff(day))]

(***************************************************************************)
(* main() of the history script.  An action is one call of http_get_json   *)
(* and the code of main() that follows it up to the next call; an error    *)
(* http_get_json raises is caught nowhere, so the process exits with the   *)
(* files as they were.                                                     *)
(***************************************************************************)
MaxRuns == 2

NoEstimates == [Polymarket |-> None, Manifold |-> None, Kalshi |-> None]

Backoff == IF job = "history" THEN BackoffHistory ELSE BackoffToday

\* The finished calls of http_get_json the upstream's behaviours lead to.
HttpResults(ctx, retries) ==
    {HttpRun(HttpCall(ctx, retries, Backoff), o) : o \in Outcomes(job, ctx, retries)}

\* The calendar days between two runs: the same day, or RETENTION days on.
ClockSteps == {0, RETENTION}

\* main() up to the first call: the clock is read and the store loaded.
HistoryStart ==
    /\ job = "history"
    /\ pc \in {"idle", "done", "crashed"}
    /\ runs < MaxRuns
    /\ runs' = runs + 1
    /\ \E d \in ClockSteps : today' = today + d
    /\ loaded' = load_existing_records(disk.hist)
    /\ records' = load_existing_records(disk.hist)
    /\ platforms' = NoEstimates
    /\ failed' = {}
    /\ est' = PolyInit
    /\ http' = HttpIdle
    /\ pc' = "Polymarket"
    /\ UNCHANGED <<pureVars, job, disk, store>>

\* The exit of a main() that wrote the store before each call.
HistoryExitAfterWrite(h) ==
    /\ pc' = "crashed"
    /\ http' = h
    /\ failed' = failed \cup {<<pc, "http">>}
    /\ est' = None
    /\ disk' = [disk EXCEPT !.hist = Json(HistoryPayload(records, today))]
    /\ UNCHANGED <<records, platforms>>

\* The exception of http_get_json leaves main(): the process exits.
HistoryExit(h) ==
    /\ pc' = "crashed"
    /\ http' = h
    /\ failed' = failed \cup {<<pc, "http">>}
    /\ est' = None
    /\ UNCHANGED <<records, platforms, disk>>

HistoryPolymarket ==
    /\ job = "history"
    /\ pc = "Polymarket"
    /\ \E h \in HttpResults("polymarket", EstRetries) :
          LET e == PolyStep(est, Val(h.out))
          IN  IF h.state = "raised" THEN HistoryExit(h)
              ELSE IF ~e.done
              THEN /\ est' = e
                   /\ http' = h
                   /\ UNCHANGED <<pc, records, platforms, failed, disk>>
              ELSE /\ platforms' = [platforms EXCEPT !.Polymarket = Some(PolyResult(e))]
                   /\ records' = upsert(records, HistRec(today, "Polymarket", PolyResult(e)))
                   /\ est' = ManifoldInit
                   /\ http' = h
                   /\ pc' = "Manifold"
                   /\ UNCHANGED <<failed, disk>>
    /\ UNCHANGED <<pureVars, job, today, runs, loaded, store>>

HistoryManifold ==
    /\ job = "history"
    /\ pc = "Manifold"
    /\ \E h \in HttpResults("manifold-bets", EstRetries) :
          LET e == ManifoldStep(est, Val(h.out))
          IN  IF h.state = "raised" THEN HistoryExit(h)
              ELSE IF ~e.done
              THEN /\ est' = e
                   /\ http' = h
                   /\ UNCHANGED <<pc, records, platforms, failed, disk>>
              ELSE /\ platforms' = [platforms EXCEPT !.Manifold = Some(get_manifold_value(e))]
                   /\ records' = upsert(records, HistRec(today, "Manifold", get_manifold_value(e)))
                   /\ est' = None
                   /\ http' = h
                   /\ pc' = "Kalshi"
                   /\ UNCHANGED <<failed, disk>>
    /\ UNCHANGED <<pureVars, job, today, runs, loaded, store>>

\* From the snapshots call to the end of main(): the Kalshi upsert, the
\* sort, the trim and both writes.
HistoryKalshiAndWrite ==
    /\ job = "history"
    /\ pc = "Kalshi"
    /\ \E h \in HttpResults("kalshi-snapshots", EstRetries) :
          LET k == get_kalshi_published(KalshiArr(Val(h.out)), today)
              rs == IF k.date # None
                    THEN upsert(records, HistRec(Val(k.date), "Kalshi", k))
                    ELSE records
          IN  IF h.state = "raised" THEN HistoryExit(h)
              ELSE /\ platforms' = [platforms EXCEPT !.Kalshi = Some(k)]
                   /\ records' = SortRecords(rs)
                   /\ disk' = [disk EXCEPT !.hist = Json(HistoryPayload(rs, today)),
                                           !.html = Json("render_html")]
                   /\ est' = None
                   /\ http' = h
                   /\ pc' = "done"
                   /\ UNCHANGED failed
    /\ UNCHANGED <<pureVars, job, today, runs, loaded, store>>

(***************************************************************************)
(* The estimators of the today script.  A result is [value, status, note]: *)
(* primary.value, status, and in note the exception the call site caught   *)
(* (None otherwise); new is auxiliary.new_market_count.  The derived       *)
(* counts are left out.                                                    *)
(***************************************************************************)
KalshiMaxPages == 20
KalshiTradesRetries == 3
Elapsed == 100

polymarket(e) ==
    [value |-> PolyResult(e).value, status |-> PolyResult(e).status,
     note |-> None, new |-> None]

\* manifold() after its markets call answered the list m.
manifold(e, m) ==
    [value |-> Some(e.vol), status |-> "partial", note |-> None, new |-> Some(m.new)]

KalshiInit == [iter |-> 0, cursor |-> None, pages |-> 0, scanned |-> 0,
               total |-> 0, first_ts |-> None, last_ts |-> None, done |-> FALSE]

\* The trades loop without its page cap.
KalshiStepNoCap(e, r) ==
    IF ~r.dict \/ r.n = 0 THEN [e EXCEPT !.done = TRUE]
    ELSE [e EXCEPT !.pages = @ + 1,
                   !.scanned = @ + r.n,
                   !.first_ts = IF IsNone(@) THEN Some(r.first) ELSE @,
                   !.last_ts = Some(r.last),
                   !.total = @ + r.cnt,
                   !.cursor = r.cursor,
                   !.iter = @ + 1,
                   !.done = IsNone(r.cursor)]

\* The body of the trades loop for the response r.
KalshiStep(e, r) ==
    IF ~r.dict \/ r.n = 0 THEN [e EXCEPT !.done = TRUE]
    ELSE [e EXCEPT !.pages = @ + 1,
                   !.scanned = @ + r.n,
                   !.first_ts = IF IsNone(@) THEN Some(r.first) ELSE @,
                   !.last_ts = Some(r.last),
                   !.total = @ + r.cnt,
                   !.cursor = r.cursor,
                   !.iter = @ + 1,
                   !.done = IsNone(r.cursor) \/ e.iter + 1 >= KalshiMaxPages]

Max(a, b) == IF a >= b THEN a ELSE b

\* kalshi() after its markets call answered m: exact, extrapolated
\* (total / span * elapsed, to the integer below) or missing.
kalshi(e, m) ==
    IF e.scanned > 0 /\ e.first_ts # None /\ e.last_ts # None
    THEN IF IsNone(e.cursor)
         THEN [value |-> Some(e.total), status |-> "ok", note |-> None,
               new |-> Some(m.new)]
         ELSE LET span == Max(1, Val(e.first_ts) - Val(e.last_ts))
              IN  [value |-> Some((e.total * Max(1, Elapsed)) \div span),
                   status |-> "partial", note |-> None, new |-> Some(m.new)]
    ELSE [value |-> None, status |-> "missing", note |-> None, new |-> Some(m.new)]

\* The record of the except clause of main().
CaughtPartial(e) == [value |-> None, status |-> "partial", note |-> Some(e), new |-> None]
Caught(e) == [value |-> None, status |-> "missing", note |-> Some(e), new |-> None]

\* completeness: the platforms whose status is not missing
Completeness(ps) ==
    Cardinality({n \in DOMAIN ps : ps[n] # None /\ Val(ps[n]).status # "missing"})

Report(ps, day) ==
    [date_shanghai |-> day, platforms |-> ps, completeness |-> Completeness(ps)]

(***************************************************************************)
(* main() of the today script: the three estimators in turn, each inside   *)
(* try/except, then the report written to its three files.  An action is   *)
(* one call of http_get_json and the code that follows it up to the next   *)
(* call.                                                                   *)
(***************************************************************************)
\* One run: the script reads no file, so a later run is like the first.
TodayStart ==
    /\ job = "today"
    /\ pc = "idle"
    /\ runs' = runs + 1
    /\ platforms' = NoEstimates
    /\ failed' = {}
    /\ est' = PolyInit
    /\ http' = HttpIdle
    /\ pc' = "Polymarket"
    /\ UNCHANGED <<pureVars, job, today, disk, loaded, records, store>>

\* The end of main(): the report of the estimates ps goes to the files.
TodayWrite(ps) ==
    /\ disk' = [disk EXCEPT !.todayjson = Json(Report(ps, today)),
                            !.todayroot = Json(Report(ps, today)),
                            !.todayhtml = Json("render_html")]
    /\ pc' = "done"
    /\ est' = None

\* except Exception as e, for the estimator of platform pc.
TodayExcept(e, cause, next, init) ==
    LET ps == [platforms EXCEPT ![pc] = Some(Caught(e))] IN
    /\ platforms' = ps
    /\ failed' = failed \cup {<<pc, cause>>}
    /\ IF next = "done" THEN TodayWrite(ps)
       ELSE pc' = next /\ est' = init /\ UNCHANGED disk

TodayPolymarket ==
    /\ job = "today"
    /\ pc = "Polymarket"
    /\ \E h \in HttpResults("polymarket", EstRetries) :
          LET e == PolyStep(est, Val(h.out))
          IN  /\ http' = h
              /\ IF h.state = "raised"
                 THEN TodayExcept(Val(h.err), "http", "Manifold", ManifoldInit)
                 ELSE IF ~e.done
                 THEN /\ est' = e
                      /\ UNCHANGED <<pc, platforms, failed, disk>>
                 ELSE /\ platforms' = [platforms EXCEPT !.Polymarket = Some(polymarket(e))]
                      /\ est' = ManifoldInit
                      /\ pc' = "Manifold"
                      /\ UNCHANGED <<failed, disk>>
    /\ UNCHANGED <<pureVars, job, today, runs, loaded, records, store>>

\* One call of manifold(): a page of bets while the loop runs, then the
\* markets listing; a listing that is no list of dicts raises in the sums.
TodayManifold ==
    /\ job = "today"
    /\ pc = "Manifold"
    /\ LET ctx == IF est.done THEN "manifold-markets" ELSE "manifold-bets" IN
       \E h \in HttpResults(ctx, EstRetries) :
          LET r == Val(h.out)
          IN  /\ http' = h
              /\ IF h.state = "raised"
                 THEN TodayExcept(Val(h.err), "http", "Kalshi", KalshiInit)
                 ELSE IF ~est.done
                 THEN /\ est' = ManifoldStep(est, r)
                      /\ UNCHANGED <<pc, platforms, failed, disk>>
                 ELSE IF ~r.list
                 THEN TodayExcept([kind |-> "AttributeError", at |-> 0], "code", "Kalshi", KalshiInit)
                 ELSE /\ platforms' = [platforms EXCEPT !.Manifold = Some(manifold(est, r))]
                      /\ est' = KalshiInit
                      /\ pc' = "Kalshi"
                      /\ UNCHANGED <<failed, disk>>
    /\ UNCHANGED <<pureVars, job, today, runs, loaded, records, store>>

\* One call of kalshi(): a page of trades while the loop runs, then the
\* markets listing, the result and the end of main().
TodayKalshi ==
    /\ job = "today"
    /\ pc = "Kalshi"
    /\ LET ctx == IF est.done THEN "kalshi-markets" ELSE "kalshi-trades"
           retries == IF est.done THEN EstRetries ELSE KalshiTradesRetries
       IN
       \E h \in HttpResults(ctx, retries) :
          LET r == Val(h.out)
              m == IF r.dict THEN r ELSE Markets(0)
              ps == [platforms EXCEPT !.Kalshi = Some(kalshi(est, m))]
          IN  /\ http' = h
              /\ IF h.state = "raised"
                 THEN TodayExcept(Val(h.err), "http", "done", None)
                 ELSE IF ~est.done
                 THEN /\ est' = KalshiStep(est, r)
                      /\ UNCHANGED <<pc, platforms, failed, disk>>
                 ELSE /\ platforms' = ps
                      /\ TodayWrite(ps)
                      /\ UNCHANGED failed
    /\ UNCHANGED <<pureVars, job, today, runs, loaded, records, store>>

(***************************************************************************)
(* The crypto script.  store is [assets: symbol -> [records]]; lastUpdate  *)
(* and the source names are left out.  A market answer maps each symbol to *)
(* Some(price) when the listing holds the coin and to None when not.       *)
(***************************************************************************)
COINS == <<"USDC", "USDT", "BTC", "ETH">>
Symbols == Range(COINS)

read_json(f) ==
    IF f.kind = "absent" THEN [raised |-> FALSE, data |-> None]
    ELSE IF f.kind = "unparseable" THEN [raised |-> TRUE, data |-> None]
    ELSE [raised |-> FALSE, data |-> Some(f.doc)]

\* if legacy and 'records' in legacy
HasRecords(x) == x.data # None /\ "records" \in DOMAIN Val(x.data)

\* The store load_or_init builds around the legacy records it found.
InitStore(legacy) ==
    [assets |-> [c \in Symbols |->
        [records |-> IF c = "USDC"
                     THEN [k \in 1..Len(legacy) |->
                              [date |-> legacy[k].date, price |-> legacy[k].price]]
                     ELSE <<>>]]]

Loaded(st) == [raised |-> FALSE, store |-> st]
LoadRaised == [raised |-> TRUE, store |-> None]

load_or_init(d) ==
    LET data == read_json(d.crypto)
        usdc == read_json(d.usdc)
        last == read_json(d.data)
    IN  IF data.raised THEN LoadRaised
        ELSE IF data.data # None /\ "assets" \in DOMAIN Val(data.data)
        THEN Loaded(Val(data.data))
        ELSE IF usdc.raised THEN LoadRaised
        ELSE IF HasRecords(usdc) THEN Loaded(InitStore(Val(usdc.data).records))
        ELSE IF last.raised THEN LoadRaised
        ELSE IF HasRecords(last) THEN Loaded(InitStore(Val(last.data).records))
        ELSE Loaded(InitStore(<<>>))

\* The loop of main() over COINS: a coin the listing lacks is skipped.
Upserted(st, market, day) ==
    [assets |-> [c \in Symbols |->
        IF IsNone(market[c]) THEN st.assets[c]
        ELSE [records |-> upsert_record(st.assets[c].records,
                              [date |-> day, price |-> Val(market[c])])]]]

\* usdc_legacy, written to both legacy files
UsdcLegacy(st) == [records |-> st.assets["USDC"].records]

CryptoMarkets ==
    { [c \in Symbols |-> Some(Some(1))],
      [c \in Symbols |-> Some(Some(2))],
      [c \in Symbols |-> IF c = "BTC" THEN Some(None) ELSE None] }

\* main() up to the fetch: load_or_init, which lets the error of json.load
\* through.
CryptoStart ==
    /\ job = "crypto"
    /\ pc \in {"idle", "done", "crashed"}
    /\ runs < MaxRuns
    /\ runs' = runs + 1
    /\ \E d \in ClockSteps : today' = today + d
    /\ LET l == load_or_init(disk) IN
       IF l.raised
       THEN /\ pc' = "crashed"
            /\ failed' = {<<"load_or_init", "JSONDecodeError">>}
            /\ store' = None
            /\ loaded' = None
       ELSE /\ pc' = "fetch"
            /\ failed' = {}
            /\ store' = Some(l.store)
            /\ loaded' = Some(l.store)
    /\ UNCHANGED <<pureVars, http, job, disk, records, est, platforms>>

\* fetch_market_data raised: urlopen is called once, and nothing catches.
CryptoFetchFails ==
    /\ job = "crypto"
    /\ pc = "fetch"
    /\ pc' = "crashed"
    /\ failed' = {<<"fetch_market_data", "URLError">>}
    /\ UNCHANGED <<pureVars, http, job, today, runs, disk, loaded, records, est,
                   platforms, store>>

\* fetch_market_data answered: the upserts and the three writes.
CryptoFetchAndWrite ==
    /\ job = "crypto"
    /\ pc = "fetch"
    /\ \E market \in CryptoMarkets :
          LET st == Upserted(Val(store), market, today) IN
          /\ store' = Some(st)
          /\ disk' = [disk EXCEPT !.crypto = Json(st),
                                  !.usdc = Json(UsdcLegacy(st)),
                                  !.data = Json(UsdcLegacy(st))]
    /\ pc' = "done"
    /\ UNCHANGED <<pureVars, http, job, today, runs, loaded, records, est,
                   platforms, failed>>

LegacyRec(d, p) == [date |-> d, price |-> Some(p), source |-> "CoinGecko"]

\* The files a first run of the crypto script may find.
CryptoInitialDisks ==
    { [crypto |-> c, usdc |-> u, data |-> l] :
        c \in {Absent, Unparseable, Json([dataset |-> "other"])},
        u \in {Absent, Unparseable, Json([lastUpdate |-> "other"]),
               Json([records |-> <<LegacyRec(Day0 - 1, 1), LegacyRec(Day0, 1)>>])},
        l \in {Absent,
               Json([records |-> <<LegacyRec(Day0, 2), LegacyRec(Day0 - 1, 1),
                                   LegacyRec(Day0, 1)>>])} }

WideRow(d, p, m, k) ==
    [date |-> d, polymarket_daily |-> p, manifold_daily |-> m,
     kalshi_daily_published |-> k]

\* The store file a first run may find: none, one that does not parse, a
\* document with no records, or one in the old wide format.
HistoryInitialFiles ==
    {Absent, Unparseable, Json([dataset |-> "other"]),
     Json([records |-> <<WideRow(Some(Day0 - 1), Some(5), None, Some(7))>>]),
     Json([records |-> <<WideRow(None, Some(5), None, None),
                         WideRow(Some(Day0), None, Some(3), None),
                         WideRow(Some(Day0), Some(5), None, None)>>])}

NoFiles == [hist |-> Absent, html |-> Absent, todayjson |-> Absent,
            todayroot |-> Absent, todayhtml |-> Absent, crypto |-> Absent,
            usdc |-> Absent, data |-> Absent]

Init ==
    /\ http = HttpIdle
    /\ fin = None
    /\ fout = None
    /\ job \in {"history", "today", "crypto"}
    /\ pc = "idle"
    /\ today = Day0
    /\ runs = 0
    /\ \/ job = "history" /\ \E f \in HistoryInitialFiles :
                                 disk = [NoFiles EXCEPT !.hist = f]
       \/ job = "today" /\ disk = NoFiles
       \/ job = "crypto" /\ \E d \in CryptoInitialDisks :
                                disk = [NoFiles EXCEPT !.crypto = d.crypto,
                                                       !.usdc = d.usdc,
                                                       !.data = d.data]
    /\ loaded = None
    /\ records = <<>>
    /\ est = None
    /\ platforms = NoEstimates
    /\ failed = {}
    /\ store = None

Next ==
    \/ HistoryStart
    \/ HistoryPolymarket
    \/ HistoryManifold
    \/ HistoryKalshiAndWrite
    \/ TodayStart
    \/ TodayPolymarket
    \/ TodayManifold
    \/ TodayKalshi
    \/ CryptoStart
    \/ CryptoFetchFails
    \/ CryptoFetchAndWrite

Spec == Init /\ [][Next]_vars


(***************************************************************************)
(* Properties of the runs.                                                 *)
(***************************************************************************)
NoDupKeys(rs) ==
    \A i, j \in 1..Len(rs) :
        (rs[i].date = rs[j].date /\ rs[i].platform = rs[j].platform) => i = j

NoDupDates(rs) == \A i, j \in 1..Len(rs) : rs[i].date = rs[j].date => i = j

\* C2: a run that loaded a series without duplicate keys writes none: the
\* history file holds at most one record per (date, platform), and the crypto
\* file and both legacy files at most one record per date for each asset.
WrittenKeysUnique ==
    /\ (job = "history" /\ pc = "done" /\ NoDupKeys(loaded))
          => NoDupKeys(disk.hist.doc.records)
    /\ (job = "crypto" /\ pc = "done"
          /\ \A c \in Symbols : NoDupDates(Val(loaded).assets[c].records))
          => /\ \A c \in Symbols : NoDupDates(disk.crypto.doc.assets[c].records)
             /\ NoDupDates(disk.usdc.doc.records)
             /\ NoDupDates(disk.data.doc.records)

\* A second history run on the same day: the records of the day were loaded
\* from the file the first run wrote, and were replaced.
SecondRunReplacedWitness ==
    /\ job = "history"
    /\ pc = "done"
    /\ runs = 2
    /\ NoDupKeys(loaded)
    /\ \E k \in 1..Len(loaded) :
          loaded[k].date = today /\ loaded[k].platform = "Polymarket"
    /\ \E k \in 1..Len(disk.hist.doc.records) :
          /\ disk.hist.doc.records[k].date = today
          /\ disk.hist.doc.records[k].platform = "Polymarket"

\* C3 as stated: a platform whose upstream call failed on every attempt has
\* a result in the run, of status "missing" and a null value.
ExhaustedIsMissing ==
    \A f \in failed :
        f[2] = "http" =>
            /\ platforms[f[1]] # None
            /\ Val(platforms[f[1]]).status = "missing"
            /\ Val(platforms[f[1]]).value = None

\* C4 as stated: a run in which an estimator raised still ends with a result
\* for every platform, and the today report on file holds these results.
FailureIsolated ==
    (failed # {} /\ job \in {"history", "today"}) =>
        /\ pc # "crashed"
        /\ pc = "done" =>
              /\ \A n \in DOMAIN platforms : platforms[n] # None
              /\ job = "today" => disk.todayjson.doc.platforms = platforms

Kept(r, day) == r.date >= day - 89 /\ r.daily_total_value # None

\* C5: the records the history script writes are exactly the records of the
\* loaded and upserted list whose date is at least today - 89 days and whose
\* value is not null, as many and in the same order, and coverage.start_date
\* is today - 89 days.
TrimKeepsExactly ==
    (job = "history" /\ pc = "done") =>
        LET written == disk.hist.doc.records
            kept == {k \in 1..Len(records) : Kept(records[k], today)}
        IN  /\ disk.hist.doc.coverage.start_date = today - 89
            /\ \A k \in 1..Len(records) :
                  (\E w \in 1..Len(written) : written[w] = records[k])
                      <=> k \in kept
            /\ \A w \in 1..Len(written) :
                  \E k \in kept : written[w] = records[k]
            /\ Len(written) = Cardinality(kept)
            /\ \A v, w \in 1..Len(written) :
                  v < w => \E k, l \in kept :
                              k < l /\ records[k] = written[v] /\ records[l] = written[w]

\* A run that dropped a record for its date, dropped another for its null
\* value, and kept one dated exactly at the cutoff.
TrimDropsBothWitness ==
    /\ job = "history"
    /\ pc = "done"
    /\ \E k \in 1..Len(records) :
          records[k].date < today - 89 /\ records[k].daily_total_value # None
    /\ \E k \in 1..Len(records) :
          records[k].date >= today - 89 /\ records[k].daily_total_value = None
    /\ \E w \in 1..Len(disk.hist.doc.records) :
          disk.hist.doc.records[w].date = today - 89

\* C9: in both scripts, a Polymarket page of fewer than 200 items ends the
\* paging (the next call is Manifold's), and when the paging ends the status
\* is "partial" with a value if the pages held an item, and "missing" with a
\* null value if they held none.
PolymarketShortPageStops ==
    [][ (pc = "Polymarket" /\ http'.state = "returned") =>
          LET r == Val(http'.out)
              n == IF r.list THEN r.n ELSE 0
              res == Val(platforms'.Polymarket)
          IN  /\ (r.list /\ r.n < 200) => pc' = "Manifold"
              /\ pc' = "Manifold" =>
                    IF est.count + n > 0
                    THEN res.status = "partial" /\ res.value # None
                    ELSE res.status = "missing" /\ res.value = None ]_vars

\* The today script after a first page of 199 items: Manifold is next and
\* the Polymarket value is the sum over that page alone.
FirstShortPageWitness ==
    /\ job = "today"
    /\ pc = "Manifold"
    /\ est = ManifoldInit
    /\ http.state = "returned"
    /\ Val(http.out) = PolyPage(199, 3)
    /\ Val(platforms.Polymarket).status = "partial"
    /\ Val(platforms.Polymarket).value = Some(3)

\* C10 as stated: a run that found the store file absent or unparseable goes
\* on with an empty store: load_existing_records returns no record, and
\* load_or_init returns a store (no error leaves it).
MalformedStartsFresh ==
    /\ (job = "history" /\ pc = "Polymarket" /\ est = PolyInit
          /\ disk.hist.kind \in {"absent", "unparseable"})
          => loaded = <<>>
    /\ (job = "crypto" /\ pc \in {"fetch", "crashed"}
          /\ disk.crypto.kind \in {"absent", "unparseable"})
          => /\ loaded # None
             /\ \A f \in failed : f[1] # "load_or_init"

SortedByDate(rs) == \A i, j \in 1..Len(rs) : i < j => rs[i].date <= rs[j].date

\* C11 as stated: after every completed run of the crypto script, each
\* asset's records in crypto-data.json are in non-decreasing date order,
\* runs that import a legacy USDC file and upserts that replace a date in
\* place included.
CryptoWrittenSorted ==
    (job = "crypto" /\ pc = "done") =>
        \A c \in Symbols : SortedByDate(disk.crypto.doc.assets[c].records)

(***************************************************************************)
(* SpecRace: two processes run the same update script (history or crypto)  *)
(* against the same files.  A process reads the store, then calls the      *)
(* upstreams and upserts in memory, then writes; nothing locks the files,  *)
(* so the steps of the two interleave freely.  Per process p: pc[p],       *)
(* loaded[p] (what it read), records[p] or store[p] (its list in memory),  *)
(* platforms[p] (the records it upserted).  fout lists the writers in the  *)
(* order of their writes and est counts the reads made before the first    *)
(* write.                                                                  *)
(***************************************************************************)
RaceProcs == {1, 2}

\* Path.write_text / json.dump into a file opened with 'w': the old content
\* is replaced whole.
write_textKeepingOld(old, payload) ==
    IF old.kind = "json" /\ "records" \in DOMAIN old.doc
    THEN Json([payload EXCEPT !.records = old.doc.records \o payload.records])
    ELSE Json(payload)
write_text(old, payload) == Json(payload)

\* What the three estimators may return to a run of the race.
RacePolyResults ==
    {PolyResult(PolyStep(PolyInit, r)) : r \in {NotList, PolyPage(1, 5)}}
RaceManifoldResults ==
    {get_manifold_value(ManifoldStep(ManifoldInit, r)) :
        r \in {NotList,
               BetsPage(<<Bet(Some(DayStart + 1), Some(-3)),
                          Bet(Some(DayStart - 1), Some(4))>>)}}
RaceKalshiResults(day) ==
    {get_kalshi_published(KalshiArr(r), day) :
        r \in {NotDict, Snapshots(<<Snapshot(day - 1, Some(7), None)>>),
               Snapshots(<<Snapshot(day - 2, Some(4), None)>>)}}

RaceStoredRec == [date |-> Day0 - 3, platform |-> "Kalshi",
                  daily_total_value |-> Some(2), status |-> "ok"]

InitRace ==
    /\ job \in {"history", "crypto"}
    /\ pc = [p \in RaceProcs |-> "idle"]
    /\ today = Day0
    /\ \/ /\ job = "history"
          /\ \E f \in {Absent,
                       Json(HistoryPayload(<<RaceStoredRec>>, Day0 - 1))} :
                disk = [NoFiles EXCEPT !.hist = f]
       \/ /\ job = "crypto"
          /\ disk = NoFiles
    /\ loaded = [p \in RaceProcs |-> None]
    /\ records = [p \in RaceProcs |-> <<>>]
    /\ store = [p \in RaceProcs |-> None]
    /\ platforms = [p \in RaceProcs |-> <<>>]
    /\ fout = <<>>
    /\ est = 0
    /\ runs = 0
    /\ failed = {}
    /\ http = HttpIdle
    /\ fin = None

\* main() of the history script up to the first estimator.
RaceHistoryLoad(p) ==
    /\ job = "history"
    /\ pc[p] = "idle"
    /\ pc' = [pc EXCEPT ![p] = "loaded"]
    /\ loaded' = [loaded EXCEPT ![p] = Some(load_existing_records(disk.hist))]
    /\ records' = [records EXCEPT ![p] = load_existing_records(disk.hist)]
    /\ est' = IF fout = <<>> THEN est + 1 ELSE est
    /\ UNCHANGED <<http, fin, fout, job, today, runs, disk, platforms, failed, store>>

\* The three estimators answered: the upserts of main().
RaceHistoryEstimate(p) ==
    /\ job = "history"
    /\ pc[p] = "loaded"
    /\ \E pr \in RacePolyResults, mr \in RaceManifoldResults,
          k \in RaceKalshiResults(today) :
          LET ups == <<HistRec(today, "Polymarket", pr),
                       HistRec(today, "Manifold", mr)>>
                     \o (IF k.date # None
                         THEN <<HistRec(Val(k.date), "Kalshi", k)>> ELSE <<>>)
              F[n \in 0..Len(ups)] ==
                  IF n = 0 THEN records[p] ELSE upsert(F[n - 1], ups[n])
          IN  /\ records' = [records EXCEPT ![p] = F[Len(ups)]]
              /\ platforms' = [platforms EXCEPT ![p] = ups]
    /\ pc' = [pc EXCEPT ![p] = "fetched"]
    /\ UNCHANGED <<http, fin, fout, job, today, runs, disk, loaded, est, failed, store>>

\* An estimator raised: the process exits, the files as they were.
RaceFetchFails(p) ==
    /\ pc[p] = "loaded"
    /\ pc' = [pc EXCEPT ![p] = "crashed"]
    /\ failed' = failed \cup {p}
    /\ UNCHANGED <<http, fin, fout, job, today, runs, disk, loaded, records, est,
                   platforms, store>>

\* The sort, the trim and the writes of main().
RaceHistoryWrite(p) ==
    /\ job = "history"
    /\ pc[p] = "fetched"
    /\ disk' = [disk EXCEPT
                  !.hist = write_text(disk.hist, HistoryPayload(records[p], today)),
                  !.html = Json("render_html")]
    /\ records' = [records EXCEPT ![p] = SortRecords(records[p])]
    /\ fout' = Append(fout, p)
    /\ pc' = [pc EXCEPT ![p] = "done"]
    /\ UNCHANGED <<http, fin, job, today, runs, loaded, est, platforms, failed, store>>

\* main() of the crypto script: load_or_init.
RaceCryptoLoad(p) ==
    /\ job = "crypto"
    /\ pc[p] = "idle"
    /\ ~load_or_init(disk).raised
    /\ pc' = [pc EXCEPT ![p] = "loaded"]
    /\ loaded' = [loaded EXCEPT ![p] = Some(load_or_init(disk).store)]
    /\ store' = [store EXCEPT ![p] = Some(load_or_init(disk).store)]
    /\ est' = IF fout = <<>> THEN est + 1 ELSE est
    /\ UNCHANGED <<http, fin, fout, job, today, runs, disk, records, platforms, failed>>

\* fetch_market_data answered: the upserts of main().
RaceCryptoFetch(p) ==
    /\ job = "crypto"
    /\ pc[p] = "loaded"
    /\ \E market \in CryptoMarkets :
          /\ store' = [store EXCEPT ![p] = Some(Upserted(Val(store[p]), market, today))]
          /\ platforms' = [platforms EXCEPT ![p] =
                              SelectSeq(COINS, LAMBDA c : ~IsNone(market[c]))]
    /\ pc' = [pc EXCEPT ![p] = "fetched"]
    /\ UNCHANGED <<http, fin, fout, job, today, runs, disk, loaded, records, est, failed>>

\* The three writes of main().
RaceCryptoWrite(p) ==
    /\ job = "crypto"
    /\ pc[p] = "fetched"
    /\ disk' = [disk EXCEPT !.crypto = Json(Val(store[p])),
                            !.usdc = Json(UsdcLegacy(Val(store[p]))),
                            !.data = Json(UsdcLegacy(Val(store[p])))]
    /\ fout' = Append(fout, p)
    /\ pc' = [pc EXCEPT ![p] = "done"]
    /\ UNCHANGED <<http, fin, job, today, runs, loaded, records, est, platforms,
                   failed, store>>

NextRace ==
    \E p \in RaceProcs :
        \/ RaceHistoryLoad(p)
        \/ RaceHistoryEstimate(p)
        \/ RaceFetchFails(p)
        \/ RaceHistoryWrite(p)
        \/ RaceCryptoLoad(p)
        \/ RaceCryptoFetch(p)
        \/ RaceCryptoWrite(p)

SpecRace == InitRace /\ [][NextRace]_vars

\* Both processes wrote, and both had read before the first write.
RaceOverlapped == Len(fout) = 2 /\ est = 2

HasKey(rs, rec) == \E k \in 1..Len(rs) : SameKey(rs[k], rec)

\* The records the first writer upserted that would persist (a value, inside
\* the window) and whose key the last writer neither upserted nor had read.
RaceLostRecords ==
    {k \in 1..Len(platforms[fout[1]]) :
        LET rec == platforms[fout[1]][k] IN
        /\ Kept(rec, today)
        /\ ~HasKey(platforms[fout[2]], rec)
        /\ ~HasKey(Val(loaded[fout[2]]), rec)}

RaceLostCoins ==
    {c \in Symbols :
        /\ \E k \in 1..Len(platforms[fout[1]]) : platforms[fout[1]][k] = c
        /\ \A k \in 1..Len(platforms[fout[2]]) : platforms[fout[2]][k] # c}

\* C12: when two runs of the history (or crypto) script have both read the
\* store before either wrote it, the file after both writes is the last
\* writer's alone: every record the first writer upserted under a key the
\* last writer did not have is missing from it (a lost update).
RaceLosesUpdate ==
    RaceOverlapped =>
        /\ job = "history" =>
              \A k \in RaceLostRecords :
                  ~HasKey(disk.hist.doc.records, platforms[fout[1]][k])
        /\ job = "crypto" =>
              \A c \in RaceLostCoins :
                  \A k \in 1..Len(disk.crypto.doc.assets[c].records) :
                      disk.crypto.doc.assets[c].records[k].date # today

\* Both read the empty store; the first writer upserted yesterday's Kalshi
\* value, the last writer had no Kalshi date: the file lacks the record.
RaceLostKalshiWitness ==
    /\ job = "history"
    /\ RaceOverlapped
    /\ \E k \in RaceLostRecords :
          /\ platforms[fout[1]][k].platform = "Kalshi"
          /\ ~HasKey(disk.hist.doc.records, platforms[fout[1]][k])

StatusMatchesValue(value, status) ==
    /\ status \in {"ok", "partial", "missing"}
    /\ status = "missing" <=> value = None

\* C13: every platform result of either prediction-markets script (what an
\* estimator returned, the record of the except clause) and every record of
\* the history list in memory (migrated from the wide format, loaded, or
\* upserted) has a status among ok, partial, missing, and the status is
\* "missing" exactly when the value is null.
StatusValueConsistent ==
    (job \in {"history", "today"}) =>
        /\ \A n \in DOMAIN platforms :
              platforms[n] # None =>
                  StatusMatchesValue(Val(platforms[n]).value, Val(platforms[n]).status)
        /\ \A k \in 1..Len(records) :
              StatusMatchesValue(records[k].daily_total_value, records[k].status)
        /\ job = "history" /\ loaded # None =>
              \A k \in 1..Len(loaded) :
                  StatusMatchesValue(loaded[k].daily_total_value, loaded[k].status)

\* A today report with a caught failure next to an exact Kalshi sum.
CaughtBesideExactWitness ==
    /\ job = "today"
    /\ pc = "done"
    /\ Val(platforms.Polymarket).note # None
    /\ Val(platforms.Polymarket).status = "missing"
    /\ Val(platforms.Manifold).status = "partial"
    /\ Val(platforms.Kalshi).status = "ok"

(***************************************************************************)
(* attach_comments of the Tesla timeline script.  An event is [source,     *)
(* title, comments]: comments is None when the event has no such field.    *)
(* A source URL is the sequence of its path segments, a segment [text,     *)
(* lead] with lead the run of digits text begins with; no source, or "",   *)
(* is the empty sequence.                                                  *)
(***************************************************************************)
Seg(text) == [text |-> text, lead |-> ""]
DigitSeg(text, lead) == [text |-> text, lead |-> lead]

\* re.search(r"/status/(\d+)", url): the leftmost "status" segment followed
\* by a segment that begins with a digit; the group is that run of digits.
extract_status_id(url) ==
    IF url = <<>> THEN None
    ELSE LET idx == FirstIndex([k \in 1..Len(url) |->
                        /\ k < Len(url)
                        /\ url[k].text = "status"
                        /\ url[k + 1].lead # ""])
         IN  IF idx = 0 THEN None ELSE Some(url[idx + 1].lead)

attach_commentsKeepingOld(events, by_status) ==
    [k \in 1..Len(events) |->
        LET sid == extract_status_id(events[k].source) IN
        IF sid # None /\ Val(sid) \in DOMAIN by_status
        THEN [events[k] EXCEPT !.comments = Some(rank_comments(by_status[Val(sid)]))]
        ELSE events[k]]
attach_comments(events, by_status) ==
    [k \in 1..Len(events) |->
        LET sid == extract_status_id(events[k].source) IN
        IF sid # None /\ Val(sid) \in DOMAIN by_status
        THEN [events[k] EXCEPT !.comments = Some(rank_comments(by_status[Val(sid)]))]
        ELSE [events[k] EXCEPT !.comments = None]]

(***************************************************************************)
(* SpecAttach: attach_comments applied twice to event lists of up to       *)
(* MaxEvents events.  fout lists the results of the applications.          *)
(***************************************************************************)
MaxEvents == 2

AttachUrls ==
    { <<>>,
      <<Seg("x.com"), Seg("tesla"), Seg("status"), DigitSeg("123", "123")>>,
      <<Seg("x.com"), Seg("tesla"), Seg("status"), DigitSeg("456abc", "456")>>,
      <<Seg("x.com"), Seg("tesla"), Seg("statuses"), DigitSeg("123", "123")>>,
      <<Seg("x.com"), Seg("status"), Seg("photo"), Seg("status"),
        DigitSeg("789", "789"), Seg("status"), DigitSeg("123", "123")>>,
      <<Seg("x.com"), Seg("tesla"), Seg("status")>> }

AttachOldComments ==
    {None, Some(<<[author |-> 9, text |-> [uniq |-> 1, length |-> 5, digits |-> 0],
                   likes |-> 1]>>)}

AttachEvents ==
    { [source |-> u, title |-> "t", comments |-> c] :
        u \in AttachUrls, c \in AttachOldComments }

AttachSeed ==
    << [likes |-> None, text |-> [uniq |-> 6, length |-> 40, digits |-> 0]],
       [likes |-> Some(2), text |-> [uniq |-> 12, length |-> 400, digits |-> 3]] >>

AttachByStatus ==
    { [sid \in {} |-> <<>>],
      [sid \in {"123"} |-> Cyclic(AttachSeed, 3)],
      [sid \in {"123", "456"} |-> IF sid = "123" THEN Cyclic(AttachSeed, 2) ELSE <<>>] }

InitAttach ==
    /\ http = HttpIdle
    /\ NoJob
    /\ \E events \in SeqsUpTo(AttachEvents, MaxEvents), by_status \in AttachByStatus :
          fin = [events |-> events, by_status |-> by_status]
    /\ fout = <<>>

\* attach_comments mutates the events in place: a later call works on the
\* result of the earlier one.
ApplyAttach ==
    /\ Len(fout) < 2
    /\ fout' = Append(fout, attach_comments(
                   IF fout = <<>> THEN fin.events ELSE fout[Len(fout)],
                   fin.by_status))
    /\ UNCHANGED <<http, fin, jobVars>>

NextAttach == ApplyAttach

SpecAttach == InitAttach /\ [][NextAttach]_vars

\* C14: after attach_comments every event keeps its other fields; its
\* comments are rank_comments of the by_status list of the status id of its
\* source when that id is a key of by_status, and it has no comments field
\* otherwise; a second application changes nothing.
AttachSetsOrRemoves ==
    /\ Len(fout) >= 1 =>
          /\ Len(fout[1]) = Len(fin.events)
          /\ \A k \in 1..Len(fin.events) :
                LET e == fin.events[k]
                    a == fout[1][k]
                    sid == extract_status_id(e.source)
                IN  /\ a.source = e.source
                    /\ a.title = e.title
                    /\ DOMAIN a = DOMAIN e
                    /\ IF sid # None /\ Val(sid) \in DOMAIN fin.by_status
                       THEN a.comments = Some(rank_comments(fin.by_status[Val(sid)]))
                       ELSE a.comments = None
    /\ Len(fout) = 2 => fout[2] = fout[1]

\* Two events with old comments: the one whose source names status 456abc
\* gets the (empty) list of key 456, the one with /statuses/ loses its
\* comments, and the second application has run.
AttachRemovesOldWitness ==
    /\ Len(fout) = 2
    /\ Len(fin.events) = 2
    /\ fin.events[1].source =
          <<Seg("x.com"), Seg("tesla"), Seg("statuses"), DigitSeg("123", "123")>>
    /\ fin.events[1].comments # None
    /\ fout[1][1].comments = None
    /\ extract_status_id(fin.events[2].source) = Some("456")
    /\ fin.events[2].comments # None
    /\ fout[1][2].comments = Some(<<>>)

\* C15 as stated: when kalshi() returns in the today script, the status is
\* "ok" with the exact sum whenever a trade was scanned and the paging did
\* not stop at the 20-page cap with a cursor outstanding (so also after an
\* empty page that followed a page with a cursor); "partial" only at the
\* cap with a cursor outstanding; "missing" with a null value only when no
\* trade was scanned.
KalshiExactUnlessCapped ==
    [][ (job = "today" /\ pc = "Kalshi" /\ pc' = "done"
            /\ http'.state = "returned") =>
          LET res == Val(platforms'.Kalshi)
              capped == est.iter = 20 /\ est.cursor # None
          IN  /\ (est.scanned > 0 /\ ~capped) =>
                    (res.status = "ok" /\ res.value = Some(est.total))
              /\ res.status = "partial" => capped
              /\ res.status = "missing" => (est.scanned = 0 /\ res.value = None) ]_vars

(***************************************************************************)
(* SpecTerm: one run of the history script or of the today script, with    *)
(* the fairness of a process that runs alone: every call blocks for at     *)
(* most its timeout (curl --max-time), so a run that can take its next     *)
(* step takes it.                                                          *)
(***************************************************************************)
HistoryStartOnce == runs = 0 /\ HistoryStart

InitTerm == Init /\ job \in {"history", "today"}

NextTerm ==
    \/ HistoryStartOnce
    \/ HistoryPolymarket
    \/ HistoryManifold
    \/ HistoryKalshiAndWrite
    \/ TodayStart
    \/ TodayPolymarket
    \/ TodayManifold
    \/ TodayKalshi

SpecTerm == InitTerm /\ [][NextTerm]_vars /\ WF_vars(NextTerm)

\* While a page loop runs, the pages answered so far are fewer than the
\* cap, and the call that just ended made no more attempts than its retries.
PagesAndAttemptsBounded ==
    /\ (pc = "Polymarket") => (est.page < 4 /\ ~est.done)
    /\ (pc = "Manifold" /\ ~est.done) => est.iter < 4
    /\ (pc = "Manifold" /\ est.done) => est.iter <= 4
    /\ (job = "today" /\ pc = "Kalshi" /\ ~est.done) => est.iter < 20
    /\ (job = "today" /\ pc = "Kalshi" /\ est.done) => est.iter <= 20
    /\ http.state # "idle" =>
          /\ http.retries \in {3, 4}
          /\ http.attempts <= http.retries
          /\ http.state \in {"returned", "raised"}

\* C16: every estimator ends whatever the upstream does: Polymarket and
\* Manifold request at most 4 pages and the Kalshi today estimator at most
\* 20, one request at a time of at most 3 or 4 attempts, and every started
\* run reaches its write (done) or exits with the error (crashed).
EstimatorsTerminate ==
    /\ []PagesAndAttemptsBounded
    /\ (pc \in {"Polymarket", "Manifold", "Kalshi"}) ~> (pc \in {"done", "crashed"})

\* The Kalshi trades loop stopped by its cap: 20 pages, each with a cursor.
KalshiCapReachedWitness ==
    /\ job = "today"
    /\ pc = "Kalshi"
    /\ est.done
    /\ est.iter = 20
    /\ est.pages = 20
    /\ est.cursor # None

(***************************************************************************)
(* The history run's keys and the written series.                          *)
(***************************************************************************)
\* The records this run upserted: (today, Polymarket), (today, Manifold)
\* and, when a snapshot has a date, (published date, Kalshi).
RunRecords ==
    {HistRec(today, n, Val(platforms[n])) : n \in {"Polymarket", "Manifold"}}
    \cup (IF Val(platforms.Kalshi).date # None
          THEN {HistRec(Val(Val(platforms.Kalshi).date), "Kalshi", Val(platforms.Kalshi))}
          ELSE {})

HasRunKey(r) == \E x \in RunRecords : SameKey(r, x)

InWindow(r) == r.date >= Cutoff(today)

Written == disk.hist.doc.records

\* The loaded records of other keys that are inside the window with a value
\* are in the written series, and the written series holds nothing else
\* beside this run's records.
OthersCarriedOver ==
    /\ \A k \in 1..Len(loaded) :
          (~HasRunKey(loaded[k]) /\ InWindow(loaded[k])
              /\ loaded[k].daily_total_value # None)
            => \E w \in 1..Len(Written) : Written[w] = loaded[k]
    /\ \A w \in 1..Len(Written) :
          \/ Written[w] \in RunRecords
          \/ /\ ~HasRunKey(Written[w])
             /\ \E k \in 1..Len(loaded) : loaded[k] = Written[w]

\* C17 as stated: after a history run the written series has a record for
\* each of the run's keys exactly when the run's value for it is not null,
\* and the other records inside the window are carried over.
NullDestroysStoredValue ==
    (job = "history" /\ pc = "done" /\ NoDupKeys(loaded)) =>
        /\ \A x \in RunRecords :
              (\E w \in 1..Len(Written) : SameKey(Written[w], x))
                  <=> x.daily_total_value # None
        /\ OthersCarriedOver

\* C17: after a history run that loaded a series without duplicate keys, the
\* written series has a record for each of the run's keys exactly when the
\* run's value for it is not null and its date is inside the window, that
\* record is the run's, and the other loaded records inside the window that
\* have a value are carried over unchanged.
NullDestroysStoredValueInWindow ==
    (job = "history" /\ pc = "done" /\ NoDupKeys(loaded)) =>
        /\ \A x \in RunRecords :
              /\ (\E w \in 1..Len(Written) : SameKey(Written[w], x))
                    <=> (x.daily_total_value # None /\ InWindow(x))
              /\ \A w \in 1..Len(Written) :
                    SameKey(Written[w], x) => Written[w] = x
        /\ OthersCarriedOver

\* A second run on the same day whose Polymarket estimate is null: the
\* value the first run stored is gone, the Manifold record is this run's.
StoredValueDestroyedWitness ==
    /\ job = "history"
    /\ pc = "done"
    /\ NoDupKeys(loaded)
    /\ \E k \in 1..Len(loaded) :
          /\ loaded[k].date = today
          /\ loaded[k].platform = "Polymarket"
          /\ loaded[k].daily_total_value # None
    /\ Val(platforms.Polymarket).value = None
    /\ \A w \in 1..Len(Written) :
          ~(Written[w].date = today /\ Written[w].platform = "Polymarket")
    /\ \E k \in 1..Len(loaded), w \in 1..Len(Written) :
          ~HasRunKey(loaded[k]) /\ Written[w] = loaded[k]

\* C18: in the history and crypto scripts a step changes a persisted file
\* only when it ends a run whose every fetch answered; a run that exits on
\* a fetch error leaves every file as it was.
FetchErrorLeavesFiles ==
    [][ (job \in {"history", "crypto"}) =>
          /\ (disk' # disk) => (pc' = "done" /\ failed' = {})
          /\ (pc' = "crashed") => disk' = disk ]_vars

\* A second history run that exits on a fetch error: the store file is the
\* one the first run wrote and this run loaded.
CrashedRunKeptFilesWitness ==
    /\ job = "history"
    /\ pc = "crashed"
    /\ runs = 2
    /\ failed # {}
    /\ disk.hist.kind = "json"
    /\ "coverage" \in DOMAIN disk.hist.doc
    /\ disk.hist.doc.records # <<>>
    /\ disk.hist.doc.records = loaded
    /\ disk.html = Json("render_html")

(***************************************************************************)
(* SpecManifold: the bets loop of get_manifold_value and manifold against  *)
(* an upstream that holds a list of bets, newest first, and answers a      *)
(* request with its first limit bets whose createdTime is at most          *)
(* beforeTime.  fin is the upstream, est the loop's locals, fout the       *)
(* requests made so far: the beforeTime sent and the ids of the page.      *)
(***************************************************************************)
MaxBets == 5
MaxPageSize == 2

BetTimes == (DayStart - 1)..(DayStart + 3)

\* Bets newest first; a bet's id is its position.
UpstreamBets ==
    UNION {{b \in [1..n -> [createdTime : {Some(t) : t \in BetTimes},
                            shares : {Some(-3), Some(4)}]] :
              \A k \in 1..(n - 1) : Val(b[k].createdTime) >= Val(b[k + 1].createdTime)} :
           n \in 0..MaxBets}

\* The ids of the page the upstream answers to params.
BetsPageIds(up, before) ==
    LET match == SelectSeq([k \in 1..Len(up.bets) |-> k],
                           LAMBDA k : before = None
                                        \/ Val(up.bets[k].createdTime) <= Val(before))
    IN  SubSeq(match, 1, IF Len(match) < up.limit THEN Len(match) ELSE up.limit)

InitManifold ==
    /\ fin \in [bets : UpstreamBets, limit : 1..MaxPageSize]
    /\ est = ManifoldInit
    /\ fout = <<>>
    /\ http = HttpIdle
    /\ job = "none" /\ pc = "idle" /\ today = 0 /\ runs = 0
    /\ disk = <<>> /\ loaded = None /\ records = <<>>
    /\ platforms = <<>> /\ failed = {} /\ store = None

\* One pass of the loop: the request with the current beforeTime and the
\* loop body on the page.
ManifoldPage ==
    /\ ~est.done
    /\ LET ids == BetsPageIds(fin, est.before)
           page == [k \in 1..Len(ids) |-> fin.bets[ids[k]]]
       IN  /\ est' = ManifoldStep(est, BetsPage(page))
           /\ fout' = Append(fout, [before |-> est.before, ids |-> ids])
    /\ UNCHANGED <<fin, http, job, pc, today, runs, disk, loaded, records,
                   platforms, failed, store>>

NextManifold == ManifoldPage

SpecManifold == InitManifold /\ [][NextManifold]_vars

PageTimes(n) == {Val(fin.bets[fout[n].ids[k]].createdTime) : k \in 1..Len(fout[n].ids)}

HasOlderBet(n) == \E t \in PageTimes(n) : t < DayStart

\* The bets of the pages so far that are of the local day.
CountedIds ==
    {i \in 1..Len(fin.bets) :
        /\ Val(fin.bets[i].createdTime) >= DayStart
        /\ \E n \in 1..Len(fout) : \E k \in 1..Len(fout[n].ids) : fout[n].ids[k] = i}

\* C19: against an upstream that answers newest first with createdTime at
\* most beforeTime, the first request carries no beforeTime and each later
\* one the least createdTime of the page before minus 1, strictly less
\* than the one before; no bet is on two pages, and vol is the sum of
\* abs(shares) over the bets of the pages with createdTime at least the day
\* start, each once; the loop has ended exactly when the last page was
\* empty or held an older bet or was the 4th.
ManifoldPagesDescend ==
    /\ Len(fout) = est.iter + (IF est.done /\ fout # <<>> /\ fout[Len(fout)].ids = <<>> THEN 1 ELSE 0)
    /\ Len(fout) <= 4
    /\ \A n \in 1..Len(fout) :
          /\ (n = 1) => fout[n].before = None
          /\ (n > 1) => fout[n].before = Some(MinOf(PageTimes(n - 1)) - 1)
          /\ (n > 2) => Val(fout[n].before) < Val(fout[n - 1].before)
          /\ (n < Len(fout)) => (fout[n].ids # <<>> /\ ~HasOlderBet(n))
    /\ \A n, m \in 1..Len(fout) : \A k \in 1..Len(fout[n].ids), l \in 1..Len(fout[m].ids) :
          fout[n].ids[k] = fout[m].ids[l] => (n = m /\ k = l)
    /\ est.vol = SumSeq([i \in 1..Len(fin.bets) |->
                           IF i \in CountedIds THEN Abs(Val(fin.bets[i].shares)) ELSE 0])
    /\ est.done <=> /\ fout # <<>>
                    /\ \/ fout[Len(fout)].ids = <<>>
                       \/ HasOlderBet(Len(fout))
                       \/ Len(fout) = 4

\* Three pages were read: the second began below the first's oldest bet
\* although a bet of the same createdTime was left, and the third held a
\* bet older than the day start, which ended the loop before the cap.
ManifoldStoppedOnOlderWitness ==
    /\ est.done
    /\ Len(fout) = 3
    /\ HasOlderBet(3)
    /\ est.vol > 0
    /\ \E i \in 1..Len(fin.bets) :
          /\ Val(fin.bets[i].createdTime) = MinOf(PageTimes(1))
          /\ \A n \in 1..3 : \A k \in 1..Len(fout[n].ids) : fout[n].ids[k] # i

====
